---------------------------- MODULE Spec2Model ----------------------------
(***************************************************************************)
(* A model of the watsonx Orchestrate chat client: the interactive         *)
(* Streamlit front end (src/app.py) and the FastAPI relay                  *)
(* (src/fastapi_app.py).  Both exchange an API key for a bearer token,     *)
(* create a run, poll the run until it leaves "running" or a deadline      *)
(* passes, and search the run's JSON for the assistant's text.             *)
(*                                                                         *)
(* Python values are tagged records: t is the type ("null" is None),       *)
(* v the payload.  A dict is a sequence of <<key, value>> pairs in         *)
(* insertion order, a list is a sequence of values.                        *)
(***************************************************************************)
EXTENDS Integers, Sequences, FiniteSets

VARIABLES
    program,          \* which program runs: "poller" (a poller called on its own), "ui" (app.py), "relay" (fastapi_app.py)
    pc,               \* the position of the running turn
    session_state,    \* st.session_state of app.py: history, thread_id, message_input, last_error
    shown_error,      \* what st.error displayed at the last script run
    request,          \* the relay's ChatRequest of the turn (None outside a relay turn)
    token,            \* the token the token provider returned
    payload,          \* the run-creation body sent
    orchestrate_resp, \* the parsed run-creation response
    run_id,
    poller,           \* "sync" (app.py) or "async" (fastapi_app.py)
    max_wait_seconds,
    poll_interval,
    elapsed,
    run_json,         \* the body of the last successful status fetch
    outcome,          \* the poller's final state: NONE until it returns
    result,           \* what the poller returned: <<message, second>>
    response,         \* the relay's HTTP response to the /chat call
    calls,            \* how many calls of each kind the turn has made
    upstream,         \* the last response each endpoint gave in this turn, and whether every status answer before the last said "running"
    sends,            \* how many sends the interactive session has seen
    suspended         \* the locals of the relay's other turns, each waiting at its await

vars == <<program, pc, session_state, shown_error, request, token, payload,
          orchestrate_resp, run_id, poller, max_wait_seconds, poll_interval,
          elapsed, run_json, outcome, result, response, calls, upstream, sends,
          suspended>>

---------------------------------------------------------------------------
(* Python values *)

None == [t |-> "null"]

Str(s) == [t |-> "str", v |-> s]

Num(n) == [t |-> "num", v |-> n]

Bool(b) == [t |-> "bool", v |-> b]

Dict(pairs) == [t |-> "obj", v |-> pairs]

List(items) == [t |-> "arr", v |-> items]

\* bool(x): what `if x`, `not x` and `x or y` test
Truthy(x) ==
    CASE x.t = "null" -> FALSE
      [] x.t = "bool" -> x.v
      [] x.t = "num"  -> x.v # 0
      [] x.t = "str"  -> x.v # ""
      [] x.t = "obj"  -> Len(x.v) > 0
      [] x.t = "arr"  -> Len(x.v) > 0
      [] x.t = "text" -> x.raw # ""
      [] OTHER        -> TRUE

\* x or y
Or(x, y) == IF Truthy(x) THEN x ELSE y

\* k in d
Has(d, k) == \E i \in 1..Len(d.v) : d.v[i][1] = k

\* d.get(k)
Get(d, k) ==
    IF Has(d, k)
    THEN d.v[CHOOSE i \in 1..Len(d.v) : d.v[i][1] = k][2]
    ELSE None

\* d.values()
Values(d) == [i \in 1..Len(d.v) |-> d.v[i][2]]

\* d[k] = x on a dict that has no key k yet
SetKey(d, k, x) == Dict(Append(d.v, <<k, x>>))

\* str.lower() on the texts of the model
Lower(s) ==
    CASE s = "Running"   -> "running"
      [] s = "RUNNING"   -> "running"
      [] s = "Completed" -> "completed"
      [] OTHER           -> s

\* str.strip() on the texts of the model
Strip(s) ==
    CASE s = "  "   -> ""
      [] s = " hi " -> "hi"
      [] OTHER      -> s

---------------------------------------------------------------------------
(* Python floats.  elapsed and poll_interval are IEEE doubles: 53          *)
(* significant bits, sums rounded to nearest, ties to even.  A double      *)
(* below 2^31 that is a multiple of 2^-56 is [s, h, l]: s whole seconds    *)
(* and a fraction of (h * 2^28 + l) / 2^56.                                *)

Limb == 2^28

Float(s, h, l) == [s |-> s, h |-> h, l |-> l]

Zero == Float(0, 0, 0)           \* 0.0

Half == Float(0, 2^27, 0)        \* 0.5

One == Float(1, 0, 0)            \* 1.0

\* 0.1, which is the double 7205759403792794 / 2^56
Tenth == Float(0, 26843545, 161061274)

RECURSIVE BitLen(_)
BitLen(n) == IF n = 0 THEN 0 ELSE 1 + BitLen(n \div 2)

\* a + b before rounding
ExactSum(a, b) ==
    LET l0 == a.l + b.l
        h0 == a.h + b.h + (l0 \div Limb)
    IN  Float(a.s + b.s + (h0 \div Limb), h0 % Limb, l0 % Limb)

\* how many low bits of x do not fit in 53 significant bits
ExtraBits(x) ==
    LET bits == IF x.s > 0 THEN BitLen(x.s) + 56
                ELSE IF x.h > 0 THEN BitLen(x.h) + 28
                ELSE BitLen(x.l)
    IN  IF bits > 53 THEN bits - 53 ELSE 0

\* x rounded to 53 significant bits, to nearest, ties to even
RoundDouble(x) ==
    LET d  == ExtraBits(x)
        q  == x.l \div (2^d)
        r  == x.l % (2^d)
        up == (2 * r > 2^d) \/ (2 * r = 2^d /\ q % 2 = 1)
        l0 == (IF up THEN q + 1 ELSE q) * (2^d)
        h0 == x.h + (l0 \div Limb)
    IN  Float(x.s + (h0 \div Limb), h0 % Limb, l0 % Limb)

\* a + b
FloatAdd(a, b) == RoundDouble(ExactSum(a, b))

\* a >= n for an int n
FloatGeInt(a, n) == a.s >= n

---------------------------------------------------------------------------
(* The message extractor *)

\* The keys probed with content before message.
CandidateKeysMutant == <<"content", "message", "messages", "output", "text", "result">>

CandidateKeys == <<"message", "messages", "content", "output", "text", "result">>

RECURSIVE find_message(_), ProbeKeys(_, _), ScanItems(_, _)

\* for item in items: candidate = find_message(item); if candidate: return candidate
ScanItems(items, i) ==
    IF i > Len(items) THEN None
    ELSE LET candidate == find_message(items[i])
         IN  IF Truthy(candidate) THEN candidate ELSE ScanItems(items, i + 1)

\* for k in (candidate keys): ...; then for v in obj.values(): ...
ProbeKeys(obj, i) ==
    IF i > Len(CandidateKeys) THEN ScanItems(Values(obj), 1)
    ELSE LET k == CandidateKeys[i]
         IN  IF Has(obj, k)
             THEN LET v == Get(obj, k)
                  IN  IF v.t = "str" THEN v
                      ELSE LET candidate == find_message(v)
                           IN  IF Truthy(candidate) THEN candidate
                               ELSE ProbeKeys(obj, i + 1)
             ELSE ProbeKeys(obj, i + 1)

\* find_message taking a bare string for a message.
find_messageMutant(obj) ==
    IF obj.t = "str" THEN obj
    ELSE IF obj.t = "obj" THEN ProbeKeys(obj, 1)
    ELSE IF obj.t = "arr" THEN ScanItems(obj.v, 1)
    ELSE None

find_message(obj) ==
    IF obj.t = "obj"
    THEN IF Get(obj, "role") = Str("assistant")
         THEN LET content == Or(Get(obj, "content"), Or(Get(obj, "message"), Get(obj, "text")))
              IN  IF content.t = "str" THEN content
                  ELSE IF content.t \in {"obj", "arr"} THEN find_message(content)
                  ELSE ProbeKeys(obj, 1)
         ELSE ProbeKeys(obj, 1)
    ELSE IF obj.t = "arr" THEN ScanItems(obj.v, 1)
    ELSE None

extract_agent_message_from_run(run_json_) == find_message(run_json_)

---------------------------------------------------------------------------
(* HTTP responses.  resp.text is the raw body: the text of a JSON value    *)
(* (raw names it, json is what resp.json() parses from it) or nothing.     *)

Text(raw, json) == [t |-> "text", raw |-> raw, json |-> json]

EmptyText == Text("", None)

Response(code, text) == [status_code |-> code, text |-> text]

\* resp.json()
Json(resp) == resp.text.json

\* f"Run {run_id} still running after {max_wait_seconds}s"
StillRunning(rid, maxw) == [t |-> "fstr", v |-> <<"Run", rid, "still running after", maxw, "s">>]

---------------------------------------------------------------------------
(* The run poller *)

\* run_json.get("status") or run_json.get("state") or run_json.get("run_status")
StatusOf(rj) ==
    IF rj.t = "obj"
    THEN Or(Get(rj, "status"), Or(Get(rj, "state"), Get(rj, "run_status")))
    ELSE None

\* app.py: status lower-cased if textual; if not status or status != "running"
SyncStops(status) ==
    LET st == IF status.t = "str" THEN Str(Lower(status.v)) ELSE status
    IN  ~Truthy(st) \/ st # Str("running")

\* fastapi_app.py: if not status or (isinstance(status, str) and status.lower() != "running")
AsyncStops(status) ==
    ~Truthy(status) \/ (status.t = "str" /\ Lower(status.v) # "running")

Stops(kind, status) == IF kind = "sync" THEN SyncStops(status) ELSE AsyncStops(status)

\* a 200 answer whose status is the text "running" in any letter case
SaysRunning(resp) ==
    /\ resp.status_code = 200
    /\ StatusOf(Json(resp)).t = "str"
    /\ Lower(StatusOf(Json(resp)).v) = "running"

\* {"error": True, "status_code": resp.status_code, "detail": resp.text}
TransportErrorMutant(resp) ==
    Dict(<< <<"error", Bool(TRUE)>>, <<"detail", resp.text>> >>)

TransportError(resp) ==
    Dict(<< <<"error", Bool(TRUE)>>, <<"status_code", Num(resp.status_code)>>,
            <<"detail", resp.text>> >>)

\* {"error": True, "status": "timeout", "detail": ..., "last_run": run_json}
TimeoutErrorMutant(rid, maxw, rj) ==
    Dict(<< <<"error", Bool(TRUE)>>, <<"status", Str("timeout")>>,
            <<"detail", StillRunning(rid, maxw)>> >>)

TimeoutError(rid, maxw, rj) ==
    Dict(<< <<"error", Bool(TRUE)>>, <<"status", Str("timeout")>>,
            <<"detail", StillRunning(rid, maxw)>>, <<"last_run", rj>> >>)

\* if elapsed >= max_wait_seconds
DeadlineReachedMutant(el, maxw) == el.s > maxw \/ (el.s = maxw /\ (el.h > 0 \/ el.l > 0))

DeadlineReached(el, maxw) == FloatGeInt(el, maxw)

\* One pass of the loop body, from the response of the GET to the return or
\* the sleep: the outcome, what is returned, and the extractor calls made.
PollStep(kind, resp, el, maxw, rid) ==
    IF resp.status_code # 200
    THEN [outcome |-> "TRANSPORT_ERROR", result |-> <<None, TransportError(resp)>>, extracts |-> 0]
    ELSE LET rj == Json(resp)
         IN  IF Stops(kind, StatusOf(rj))
             THEN [outcome |-> "TERMINAL",
                   result |-> <<extract_agent_message_from_run(rj), rj>>, extracts |-> 1]
             ELSE IF DeadlineReached(el, maxw)
             THEN [outcome |-> "TIMEOUT",
                   result |-> <<None, TimeoutError(rid, maxw, rj)>>, extracts |-> 0]
             ELSE [outcome |-> "NONE", result |-> <<None, None>>, extracts |-> 0]

---------------------------------------------------------------------------
(* What the services may answer *)

\* bodies of the run-status endpoint
b_running == Text("b_running", Dict(<< <<"status", Str("running")>> >>))

b_completed ==
    Text("b_completed", Dict(<< <<"status", Str("completed")>>,
                                <<"output", Dict(<< <<"text", Str("hi")>> >>)>> >>))

b_number == Text("b_number", Dict(<< <<"status", Num(5)>>, <<"result", Str("early")>> >>))

b_nostatus ==
    Text("b_nostatus", Dict(<< <<"messages", List(<< Dict(<< <<"role", Str("assistant")>>,
                                                           <<"content", Str("hello")>> >>) >>)>> >>))

StatusBodies == {
    b_running, b_completed, b_number, b_nostatus,
    Text("b_Running", Dict(<< <<"status", Str("Running")>> >>)),
    Text("b_state", Dict(<< <<"id", Str("r1")>>, <<"state", Str("RUNNING")>> >>)),
    Text("b_failed", Dict(<< <<"status", Str("failed")>> >>)),
    Text("b_object", Dict(<< <<"status", Dict(<< <<"code", Num(1)>> >>)>> >>)),
    Text("b_null", Dict(<< <<"status", None>>, <<"run_status", Str("running")>> >>)),
    Text("b_empty", Dict(<< <<"status", Str("")>>, <<"state", Str("running")>> >>)),
    Text("b_list", List(<< Dict(<< <<"status", Str("running")>> >>) >>)) }

\* How many fetches of one run are answered "running" at most, when the
\* relay serves several requests at once.
MaxPolls == 1

\* The relay serves several requests at once.
Concurrent == suspended # <<>>

\* error answers of any endpoint: a status code and a body (one of them
\* when the relay serves several requests at once)
ErrorResponses ==
    IF Concurrent THEN { Response(500, EmptyText) }
    ELSE { Response(401, Text("e_denied", Dict(<< <<"errorMessage", Str("denied")>> >>))),
           Response(500, EmptyText) }

\* what the run-status endpoint may answer: every body to a poller called on
\* its own, four of them within a whole turn; to the requests the relay
\* serves at once, "running" to the first MaxPolls fetches of a run at most
StatusResponses ==
    { Response(200, b) : b \in IF program = "poller" THEN StatusBodies
                               ELSE IF ~Concurrent
                               THEN {b_running, b_completed, b_number, b_nostatus}
                               ELSE IF calls.sleep < MaxPolls THEN {b_running, b_completed}
                               ELSE {b_completed} }
    \cup ErrorResponses

NoCalls == [token |-> 0, launch |-> 0, fetch |-> 0, sleep |-> 0, extract |-> 0]

NoUpstream == [token |-> None, launch |-> None, status |-> None, running |-> TRUE]

---------------------------------------------------------------------------
(* The front ends' own values *)

\* the text typed into the message box when Send is clicked
Inputs == {"", "  ", " hi "}

\* /chat request bodies
Requests == { [message |-> "hi", agent_id |-> "agent", thread_id |-> th] :
              th \in IF Concurrent THEN {None, Str("t1")}
                     ELSE {None, Str(""), Str("t1")} }

\* answers of the identity endpoint with status 200
TokenBodies ==
    { Text("k_token", Dict(<< <<"access_token", Str("tok")>>, <<"expires_in", Num(3600)>> >>)) }
    \cup IF Concurrent THEN {}
         ELSE { Text("k_notoken", Dict(<< <<"expires_in", Num(3600)>> >>)) }

TokenResponses == { Response(200, b) : b \in TokenBodies } \cup ErrorResponses

\* answers of the run-creation endpoint with status 200
LaunchBodies ==
    { Text("l_r1t1", Dict(<< <<"run_id", Str("r1")>>, <<"thread_id", Str("t1")>> >>)),
      Text("l_t2", Dict(<< <<"thread_id", Str("t2")>> >>)) }
    \cup IF Concurrent THEN {}
         ELSE { Text("l_r2t2", Dict(<< <<"runId", Str("r2")>>, <<"thread_id", Str("")>>,
                                       <<"threadId", Str("t2")>> >>)),
                Text("l_r1", Dict(<< <<"run_id", Str("r1")>> >>)) }

LaunchResponses == { Response(200, b) : b \in LaunchBodies } \cup ErrorResponses

\* raise_for_status raising for server errors only.
RaisesForStatusMutant(resp) == resp.status_code >= 500

\* response.raise_for_status() raises (the model's codes are 200, 4xx and 5xx)
RaisesForStatus(resp) == resp.status_code >= 400

\* app.py:11 / fastapi_app.py:12, DEFAULT_AGENT_ID
agent_id == "agent"

\* payload = {"message": {...}, "agent_id": agent_id}; if thread_id: payload["thread_id"] = thread_id
BuildPayloadMutant(message, agent, thread) ==
    SetKey(Dict(<< <<"message", Dict(<< <<"role", Str("user")>>, <<"content", Str(message)>> >>)>>,
                   <<"agent_id", Str(agent)>> >>), "thread_id", thread)

BuildPayload(message, agent, thread) ==
    LET base == Dict(<< <<"message", Dict(<< <<"role", Str("user")>>,
                                             <<"content", Str(message)>> >>)>>,
                        <<"agent_id", Str(agent)>> >>)
    IN  IF Truthy(thread) THEN SetKey(base, "thread_id", thread) ELSE base

\* raise HTTPException(status_code=..., detail=...)
HTTPException(code, detail) == [kind |-> "error", status_code |-> code, detail |-> detail]

\* The relay's answer without the run-creation answer once polling failed.
ChatResultMutant(resp_json, agent_message, run_details) ==
    [kind |-> "ok", status_code |-> 200,
     orchestrate_response |-> IF run_details # None /\ run_details.t = "obj"
                                 /\ Has(run_details, "error") THEN None ELSE resp_json,
     agent_message |-> agent_message, run_details |-> run_details]

\* return {"orchestrate_response": ..., "agent_message": ..., "run_details": ...}
ChatResult(resp_json, agent_message, run_details) ==
    [kind |-> "ok", status_code |-> 200, orchestrate_response |-> resp_json,
     agent_message |-> agent_message, run_details |-> run_details]

\* msg = st.session_state.get("message_input", "").strip()
msg == Strip(session_state.message_input)

\* returned_thread_id and not st.session_state.get("thread_id") => adopt it
AdoptThreadMutant(current, resp_json) ==
    LET returned_thread_id == Or(Get(resp_json, "thread_id"), Get(resp_json, "threadId"))
    IN  IF Truthy(returned_thread_id) THEN returned_thread_id ELSE current

\* The returned thread id never adopted.
AdoptThreadNever(current, resp_json) == current

AdoptThread(current, resp_json) ==
    LET returned_thread_id == Or(Get(resp_json, "thread_id"), Get(resp_json, "threadId"))
    IN  IF Truthy(returned_thread_id) /\ ~Truthy(current) THEN returned_thread_id ELSE current

\* the interaction appended to the history (the timestamp is the send's number)
Interaction(thread, rid, agent_message) ==
    [timestamp |-> sends, thread_id |-> thread, run_id |-> rid,
     user_message |-> msg, agent_message |-> agent_message]

\* The history replaced by this send's interaction alone.
CompletedMutant(state, rid, agent_message) ==
    [state EXCEPT !.history = <<Interaction(state.thread_id, rid, agent_message)>>,
                  !.message_input = ""]

\* lines 169-179 of app.py: append the interaction, clear the text area
Completed(state, rid, agent_message) ==
    [state EXCEPT !.history = Append(@, Interaction(state.thread_id, rid, agent_message)),
                  !.message_input = ""]

\* app.py:167 and fastapi_app.py:79: the callers' deadlines, in seconds
UiMaxWait == 5

RelayMaxWait == 120

---------------------------------------------------------------------------
(* Bounds *)

MaxWait == 2

PollIntervals == {Half, One, Tenth}

MaxSends == 2

\* How many requests the relay serves at once.
MaxTurns == 2

---------------------------------------------------------------------------
(* Actions *)

\* The poller returned res to its caller, which runs to its end.
Finish(res) ==
    CASE program = "ui" ->
           /\ session_state' = Completed(session_state, run_id, res[1])
           /\ pc' = "rerun"
           /\ UNCHANGED response
      [] program = "relay" ->
           /\ response' = ChatResult(orchestrate_resp, res[1], res[2])
           /\ pc' = "responded"
           /\ UNCHANGED session_state
      [] OTHER ->
           /\ pc' = "returned"
           /\ UNCHANGED <<session_state, response>>

\* The answer to client.get(run_url, headers=headers) arrives and the loop
\* body runs to its return or to the start of the sleep.
Fetch ==
    /\ pc = "fetch"
    /\ \E resp \in StatusResponses :
         LET step == PollStep(poller, resp, elapsed, max_wait_seconds, run_id)
         IN  /\ upstream' = [upstream EXCEPT !.status = resp,
                                   !.running = @ /\ (upstream.status = None
                                                       \/ SaysRunning(upstream.status))]
             /\ run_json' = IF resp.status_code = 200 THEN Json(resp) ELSE run_json
             /\ outcome' = step.outcome
             /\ result' = step.result
             /\ IF step.outcome = "NONE"
                THEN /\ pc' = "sleep"
                     /\ calls' = [calls EXCEPT !.sleep = @ + 1]
                     /\ UNCHANGED <<session_state, response>>
                ELSE /\ calls' = [calls EXCEPT !.extract = @ + step.extracts]
                     /\ Finish(step.result)
    /\ UNCHANGED <<program, suspended, shown_error, request, token, payload, orchestrate_resp,
                   run_id, poller, max_wait_seconds, poll_interval, elapsed, sends>>

\* time.sleep(poll_interval) / await asyncio.sleep(poll_interval) ends;
\* elapsed += poll_interval; the loop issues the next GET.
Sleep ==
    /\ pc = "sleep"
    /\ elapsed' = FloatAdd(elapsed, poll_interval)
    /\ calls' = [calls EXCEPT !.fetch = @ + 1]
    /\ pc' = "fetch"
    /\ UNCHANGED <<program, suspended, session_state, shown_error, request, token, payload,
                   orchestrate_resp, run_id, poller, max_wait_seconds, poll_interval,
                   run_json, outcome, result, response, upstream, sends>>

\* The poller is called with run id rid: the first GET is issued.
StartPoll(rid, maxw, interval) ==
    /\ run_id' = rid
    /\ max_wait_seconds' = maxw
    /\ poll_interval' = interval
    /\ elapsed' = Zero
    /\ pc' = "fetch"

\* A turn starts with nothing left of the turn before it.
NewTurn ==
    /\ token' = None
    /\ payload' = None
    /\ orchestrate_resp' = None
    /\ run_id' = None
    /\ max_wait_seconds' = 0
    /\ poll_interval' = Zero
    /\ elapsed' = Zero
    /\ run_json' = None
    /\ outcome' = "NONE"
    /\ result' = <<None, None>>
    /\ response' = None
    /\ upstream' = NoUpstream

\* app.py: the user clicks Send with raw in the message box; _send_callback
\* runs to its first return or to the token request.
UiSend ==
    /\ program = "ui"
    /\ pc = "idle"
    /\ sends < MaxSends
    /\ \E raw \in Inputs :
         /\ sends' = sends + 1
         /\ NewTurn
         /\ IF Strip(raw) = ""
            THEN /\ session_state' = [session_state EXCEPT !.message_input = raw,
                                        !.last_error = Str("Please enter a message.")]
                 /\ calls' = NoCalls
                 /\ pc' = "rerun"
            ELSE /\ session_state' = [session_state EXCEPT !.message_input = raw]
                 /\ calls' = [NoCalls EXCEPT !.token = 1]
                 /\ pc' = "token"
    /\ UNCHANGED <<program, suspended, shown_error, request, poller>>

\* fastapi_app.py: POST /chat arrives; chat_with_agent runs to the token request.
RelayChat ==
    /\ program = "relay"
    /\ pc \in {"idle", "responded"}
    /\ \E req \in Requests : request' = req
    /\ NewTurn
    /\ calls' = [NoCalls EXCEPT !.token = 1]
    /\ pc' = "token"
    /\ UNCHANGED <<program, suspended, session_state, shown_error, poller, sends>>

\* The identity endpoint answers: get_bearer_token_sync / get_bearer_token
\* return or raise, and the caller runs to the run-creation request.
TokenResponse ==
    /\ pc = "token"
    /\ \E resp \in TokenResponses :
         /\ upstream' = [upstream EXCEPT !.token = resp]
         /\ IF program = "ui"
            THEN IF RaisesForStatus(resp)
                 THEN /\ session_state' = [session_state EXCEPT
                                             !.last_error = Str("Failed to obtain IAM token.")]
                      /\ pc' = "rerun"
                      /\ UNCHANGED <<token, payload, calls, response>>
                 ELSE /\ token' = Get(Json(resp), "access_token")
                      /\ payload' = BuildPayload(msg, agent_id, session_state.thread_id)
                      /\ calls' = [calls EXCEPT !.launch = @ + 1]
                      /\ pc' = "launch"
                      /\ UNCHANGED <<session_state, response>>
            ELSE IF resp.status_code = 200
                 THEN /\ token' = Get(Json(resp), "access_token")
                      /\ payload' = BuildPayload(request.message, request.agent_id,
                                                 request.thread_id)
                      /\ calls' = [calls EXCEPT !.launch = @ + 1]
                      /\ pc' = "launch"
                      /\ UNCHANGED <<session_state, response>>
                 ELSE /\ response' = HTTPException(resp.status_code,
                                                   Str("Could not generate IAM token"))
                      /\ pc' = "responded"
                      /\ UNCHANGED <<token, payload, calls, session_state>>
    /\ UNCHANGED <<program, suspended, shown_error, request, orchestrate_resp, run_id, poller,
                   max_wait_seconds, poll_interval, elapsed, run_json, outcome, result,
                   sends>>

\* app.py, lines 154-179: the run-creation endpoint answers.
UiLaunched(resp) ==
    IF RaisesForStatus(resp)
    THEN /\ session_state' = [session_state EXCEPT !.last_error = Str("Failed to start run.")]
         /\ pc' = "rerun"
         /\ UNCHANGED <<orchestrate_resp, run_id, max_wait_seconds, poll_interval,
                        elapsed, calls, response>>
    ELSE LET resp_json == Json(resp)
             adopted == [session_state EXCEPT
                           !.thread_id = AdoptThread(@, resp_json)]
             rid == Or(Get(resp_json, "run_id"), Get(resp_json, "runId"))
         IN  /\ orchestrate_resp' = resp_json
             /\ UNCHANGED response
             /\ IF Truthy(rid)
                THEN /\ session_state' = adopted
                     /\ calls' = [calls EXCEPT !.fetch = @ + 1]
                     /\ StartPoll(rid, UiMaxWait, Half)
                ELSE /\ session_state' = Completed(adopted, rid, None)
                     /\ run_id' = rid
                     /\ pc' = "rerun"
                     /\ UNCHANGED <<max_wait_seconds, poll_interval, elapsed, calls>>

\* fastapi_app.py, lines 143-162: the run-creation endpoint answers.
RelayLaunched(resp) ==
    /\ UNCHANGED session_state
    /\ IF resp.status_code = 200
       THEN LET resp_json == Json(resp)
                rid == Or(Get(resp_json, "run_id"), Get(resp_json, "runId"))
            IN  /\ orchestrate_resp' = resp_json
                /\ IF Truthy(rid)
                   THEN /\ calls' = [calls EXCEPT !.fetch = @ + 1]
                        /\ StartPoll(rid, RelayMaxWait, One)
                        /\ UNCHANGED response
                   ELSE /\ response' = ChatResult(resp_json, None, None)
                        /\ run_id' = rid
                        /\ pc' = "responded"
                        /\ UNCHANGED <<max_wait_seconds, poll_interval, elapsed, calls>>
       ELSE LET error_detail == IF Truthy(resp.text) THEN Json(resp)
                                ELSE Str("Unknown error from Orchestrate API")
            IN  /\ response' = HTTPException(resp.status_code, error_detail)
                /\ pc' = "responded"
                /\ UNCHANGED <<orchestrate_resp, run_id, max_wait_seconds, poll_interval,
                               elapsed, calls>>

LaunchResponse ==
    /\ pc = "launch"
    /\ \E resp \in LaunchResponses :
         /\ upstream' = [upstream EXCEPT !.launch = resp]
         /\ IF program = "ui" THEN UiLaunched(resp) ELSE RelayLaunched(resp)
    /\ UNCHANGED <<program, suspended, shown_error, request, token, payload, poller, run_json,
                   outcome, result, sends>>

\* app.py, lines 116-123: after the callback the script runs again, shows the
\* last error and clears it.
Rerun ==
    /\ pc = "rerun"
    /\ shown_error' = session_state.last_error
    /\ session_state' = [session_state EXCEPT !.last_error = Str("")]
    /\ pc' = "idle"
    /\ UNCHANGED <<program, suspended, request, token, payload, orchestrate_resp, run_id, poller,
                   max_wait_seconds, poll_interval, elapsed, run_json, outcome, result,
                   response, calls, upstream, sends>>

\* app.py, lines 109-114
NoSession ==
    [history |-> <<>>, thread_id |-> None, message_input |-> "", last_error |-> Str("")]

\* What every program starts from.
Blank ==
    /\ session_state = NoSession
    /\ shown_error = Str("")
    /\ request = None
    /\ payload = None
    /\ orchestrate_resp = None
    /\ elapsed = Zero
    /\ run_json = None
    /\ outcome = "NONE"
    /\ result = <<None, None>>
    /\ response = None
    /\ upstream = NoUpstream
    /\ sends = 0
    /\ suspended = <<>>

\* Either program, started and waiting for its first turn.
Init ==
    /\ program \in {"ui", "relay"}
    /\ pc = "idle"
    /\ Blank
    /\ token = None
    /\ run_id = None
    /\ poller = IF program = "ui" THEN "sync" ELSE "async"
    /\ max_wait_seconds = 0
    /\ poll_interval = Zero
    /\ calls = NoCalls

Next == UiSend \/ RelayChat \/ TokenResponse \/ LaunchResponse \/ Fetch \/ Sleep \/ Rerun

Spec == Init /\ [][Next]_vars

\* A poller called on its own, with any arguments: its first GET is issued.
PollInit ==
    /\ program = "poller"
    /\ pc = "fetch"
    /\ Blank
    /\ token = Str("tok")
    /\ run_id = Str("r1")
    /\ poller \in {"sync", "async"}
    /\ max_wait_seconds \in 0..MaxWait
    /\ poll_interval \in PollIntervals
    /\ calls = [NoCalls EXCEPT !.fetch = 1]

PollNext == Fetch \/ Sleep

PollSpec == PollInit /\ [][PollNext]_vars

\* The sleep ends and the GET is answered: neither waits forever.
FairPollSpec == PollSpec /\ WF_vars(PollNext)

---------------------------------------------------------------------------
(* The extractor, called on its own on any JSON value (ExtractSpec) *)

\* How deep the values without candidate keys nest.
MaxDepth == 2

\* Values a field of a run body may hold: falsy ones, strings, containers
\* that hold a message and containers that hold none.
FieldValues ==
    { None, Num(0), Bool(FALSE), Str(""), Str("hello"), Str("m"),
      Dict(<< <<"text", Str("hi")>> >>), Dict(<< <<"id", Num(1)>> >>),
      List(<< >>), List(<< Dict(<< <<"content", Str("deep")>> >>) >>) }

\* Every object over the keys ks, in that order, with values from vals.
Objects(ks, vals) ==
    { Dict([i \in 1..Len(ks) |-> <<ks[i], f[i]>>]) : f \in [1..Len(ks) -> vals] }

\* The sequences of one or two distinct keys of keys.
KeyLists(keys) ==
    { <<k>> : k \in keys } \cup
    { <<k[1], k[2]>> : k \in { p \in keys \X keys : p[1] # p[2] } }

MessageFields == {"content", "message", "text"}

\* Messages of the assistant, with their fields in any order, and with or
\* without a result beside them.
AssistantObjects ==
    LET fields == KeyLists(MessageFields) \cup { <<"content", "message", "text">> }
        bare   == UNION { Objects(ks, FieldValues) : ks \in fields }
    IN  { Dict(<< <<"role", Str("assistant")>> >> \o o.v) : o \in bare } \cup
        { Dict(<< <<"role", Str("assistant")>> >> \o o.v \o << <<"result", Str("r")>> >>) :
            o \in bare }

\* Objects of one or two keys, candidate keys or not, and short arrays.
OtherValues ==
    LET keys == {"message", "messages", "content", "output", "text", "result", "id", "role"}
    IN  UNION { Objects(ks, FieldValues) : ks \in KeyLists(keys) } \cup
        { List(<<v>>) : v \in FieldValues } \cup
        { List(<<v[1], v[2]>>) : v \in FieldValues \X FieldValues }

PlainLeaves == { None, Num(0), Bool(TRUE), Str("hello"), Str("assistant") }

PlainKeys == {"id", "role"}

\* Values nested d deep that hold strings under no candidate key.
RECURSIVE Nested(_)
Nested(d) ==
    IF d = 0 THEN PlainLeaves
    ELSE LET inner == Nested(d - 1)
         IN  inner \cup
             { Dict(<< <<k, v>> >>) : k \in PlainKeys, v \in inner } \cup
             { Dict(<< <<k[1], l>>, <<k[2], v>> >>) :
                 k \in { p \in PlainKeys \X PlainKeys : p[1] # p[2] },
                 l \in PlainLeaves, v \in inner } \cup
             { List(<<v>>) : v \in inner } \cup
             { List(<<l, v>>) : l \in PlainLeaves, v \in inner }

ExtractInputs == AssistantObjects \cup OtherValues \cup Nested(MaxDepth)

\* app.py, line 56: return find_message(run_json)
Extract ==
    /\ program = "extractor"
    /\ pc = "extract"
    /\ result' = <<extract_agent_message_from_run(run_json), None>>
    /\ calls' = [calls EXCEPT !.extract = @ + 1]
    /\ pc' = "returned"
    /\ UNCHANGED <<program, suspended, session_state, shown_error, request, token, payload,
                   orchestrate_resp, run_id, poller, max_wait_seconds, poll_interval,
                   elapsed, run_json, outcome, response, upstream, sends>>

\* The extractor is about to be called on a run body.
ExtractInit ==
    /\ program = "extractor"
    /\ pc = "extract"
    /\ session_state = NoSession
    /\ shown_error = Str("")
    /\ request = None
    /\ token = None
    /\ payload = None
    /\ orchestrate_resp = None
    /\ run_id = None
    /\ poller = "sync"
    /\ max_wait_seconds = 0
    /\ poll_interval = Zero
    /\ elapsed = Zero
    /\ run_json \in ExtractInputs
    /\ outcome = "NONE"
    /\ result = <<None, None>>
    /\ response = None
    /\ calls = NoCalls
    /\ upstream = NoUpstream
    /\ sends = 0
    /\ suspended = <<>>

ExtractNext == Extract

ExtractSpec == ExtractInit /\ [][ExtractNext]_vars

---------------------------------------------------------------------------
(* The relay serving several /chat requests at once (ConcSpec) *)

\* fastapi_app.py, lines 116-162 and 79-113: the locals of one call of
\* chat_with_agent and of the poller it awaits, and what the call has seen.
Frame ==
    [pc |-> pc, request |-> request, token |-> token, payload |-> payload,
     orchestrate_resp |-> orchestrate_resp, run_id |-> run_id,
     max_wait_seconds |-> max_wait_seconds, poll_interval |-> poll_interval,
     elapsed |-> elapsed, run_json |-> run_json, outcome |-> outcome,
     result |-> result, response |-> response, calls |-> calls, upstream |-> upstream]

\* A call that has not started.
IdleFrame ==
    [pc |-> "idle", request |-> None, token |-> None, payload |-> None,
     orchestrate_resp |-> None, run_id |-> None, max_wait_seconds |-> 0,
     poll_interval |-> Zero, elapsed |-> Zero, run_json |-> None, outcome |-> "NONE",
     result |-> <<None, None>>, response |-> None, calls |-> NoCalls,
     upstream |-> NoUpstream]

\* The resumed call finding the run-creation answer the call that ran before
\* it left behind.
ResumedMutant(f, running) == [f EXCEPT !.orchestrate_resp = running.orchestrate_resp]

\* What a resumed call finds in its names: every name chat_with_agent and the
\* poller assign is a local of the call, so what it left there, whatever the
\* call that ran meanwhile (running) assigned.
Resumed(f, running) == f

\* The event loop leaves the call it was running at its await and resumes
\* another one, with that one's locals.
Resume ==
    /\ program = "relay"
    /\ \E i \in 1..Len(suspended) :
         LET f == Resumed(suspended[i], Frame)
         IN  /\ suspended' = [suspended EXCEPT ![i] = Frame]
             /\ pc' = f.pc
             /\ request' = f.request
             /\ token' = f.token
             /\ payload' = f.payload
             /\ orchestrate_resp' = f.orchestrate_resp
             /\ run_id' = f.run_id
             /\ max_wait_seconds' = f.max_wait_seconds
             /\ poll_interval' = f.poll_interval
             /\ elapsed' = f.elapsed
             /\ run_json' = f.run_json
             /\ outcome' = f.outcome
             /\ result' = f.result
             /\ response' = f.response
             /\ calls' = f.calls
             /\ upstream' = f.upstream
    /\ UNCHANGED <<program, session_state, shown_error, poller, sends>>

\* The relay, started, with MaxTurns calls of /chat to serve.
ConcInit ==
    /\ program = "relay"
    /\ poller = "async"
    /\ session_state = NoSession
    /\ shown_error = Str("")
    /\ sends = 0
    /\ pc = IdleFrame.pc
    /\ request = IdleFrame.request
    /\ token = IdleFrame.token
    /\ payload = IdleFrame.payload
    /\ orchestrate_resp = IdleFrame.orchestrate_resp
    /\ run_id = IdleFrame.run_id
    /\ max_wait_seconds = IdleFrame.max_wait_seconds
    /\ poll_interval = IdleFrame.poll_interval
    /\ elapsed = IdleFrame.elapsed
    /\ run_json = IdleFrame.run_json
    /\ outcome = IdleFrame.outcome
    /\ result = IdleFrame.result
    /\ response = IdleFrame.response
    /\ calls = IdleFrame.calls
    /\ upstream = IdleFrame.upstream
    /\ suspended = [i \in 1..(MaxTurns - 1) |-> IdleFrame]

ConcNext == RelayChat \/ TokenResponse \/ LaunchResponse \/ Fetch \/ Sleep \/ Resume

ConcSpec == ConcInit /\ [][ConcNext]_vars

---------------------------------------------------------------------------
(* The pollers, called on their own (PollSpec) *)

\* the last answer of the run-status endpoint has just been handled
Handled == pc \in {"sleep", "returned"} /\ upstream.status # None

\* the status the poller looked at in the last body
LastStatus == StatusOf(Json(upstream.status))

\* that status is the text "running" in any letter case
LastSaysRunning == LastStatus.t = "str" /\ Lower(LastStatus.v) = "running"

\* the poller returned at the last fetch: no sleep and no GET was started after it
StoppedAtLastFetch == pc = "returned" /\ calls.sleep = calls.fetch - 1

\* C1: in both pollers, a successful status fetch whose status is absent,
\* null or anything but the text "running" (in any letter case; numbers and
\* objects included) ends the poll at that fetch in TERMINAL, returning
\* (extract(body), body) for that body, with no further fetch and no sleep.
C1_NonRunningIsTerminal ==
    (Handled /\ upstream.status.status_code = 200 /\ ~LastSaysRunning)
        => /\ StoppedAtLastFetch
           /\ outcome = "TERMINAL"
           /\ result = <<extract_agent_message_from_run(Json(upstream.status)),
                         Json(upstream.status)>>

\* C2: a successful fetch that says "running" in any letter case when the
\* elapsed wait is already at or past the maximum returns TIMEOUT (no
\* message, an error marked timeout that carries the last body) without a
\* sleep or another fetch; with a maximum of 0 that is after exactly one fetch.
C2_TimeoutAtDeadline ==
    (Handled /\ upstream.status.status_code = 200 /\ LastSaysRunning
             /\ elapsed.s >= max_wait_seconds)
        => /\ StoppedAtLastFetch
           /\ outcome = "TIMEOUT"
           /\ result[1] = None
           /\ Get(result[2], "error") = Bool(TRUE)
           /\ Get(result[2], "status") = Str("timeout")
           /\ Get(result[2], "last_run") = Json(upstream.status)
           /\ calls.extract = 0
           /\ (max_wait_seconds = 0 => calls.fetch = 1)

\* a timeout at a maximum wait of 0, on a status written "Running"
C2_Witness ==
    /\ pc = "returned"
    /\ outcome = "TIMEOUT"
    /\ max_wait_seconds = 0
    /\ calls.fetch = 1
    /\ LastStatus = Str("Running")

RECURSIVE ExactMul(_, _)
\* k * p, not rounded
ExactMul(k, p) == IF k = 0 THEN Zero ELSE ExactSum(ExactMul(k - 1, p), p)

\* k <= ceil(max_wait_seconds / poll_interval), that is k - 1 < max_wait_seconds / poll_interval
WithinCeil(k) == k = 0 \/ ExactMul(k - 1, poll_interval).s < max_wait_seconds

\* at most ceil(max_wait / poll_interval) sleeps and one more fetch
FetchBound == WithinCeil(calls.sleep) /\ WithinCeil(calls.fetch - 1)

RECURSIVE SumsExact(_, _, _)
\* every elapsed += p on the way from e to maxw is exact: no sum is rounded
SumsExact(e, p, maxw) ==
    IF e.s >= maxw THEN TRUE
    ELSE FloatAdd(e, p) = ExactSum(e, p) /\ SumsExact(ExactSum(e, p), p, maxw)

NoRounding == SumsExact(Zero, poll_interval, max_wait_seconds)

Returned == pc = "returned" /\ outcome \in {"TERMINAL", "TIMEOUT", "TRANSPORT_ERROR"}

\* C3 as claimed: for every positive poll interval and every maximum wait the
\* poller makes at most ceil(max_wait / poll_interval) + 1 fetches and at
\* most ceil(max_wait / poll_interval) sleeps.
C3_BoundForEveryInterval == FetchBound

\* C3, amended: when no elapsed += poll_interval is rounded (as with the
\* intervals 0.5 and 1.0), the poller makes at most
\* ceil(max_wait / poll_interval) + 1 fetches and that many sleeps less one,
\* and it ends in exactly one of TERMINAL, TIMEOUT and TRANSPORT_ERROR,
\* whatever the service answers.
C3_TerminatesWithinBound ==
    /\ [](NoRounding => FetchBound)
    /\ []((pc = "returned") <=> (outcome # "NONE"))
    /\ (NoRounding ~> Returned)

\* the bound is met: a timeout after ceil(2 / 0.5) = 4 sleeps and 5 fetches
C3_Witness ==
    /\ Returned
    /\ outcome = "TIMEOUT"
    /\ poll_interval = Half
    /\ max_wait_seconds = 2
    /\ calls.sleep = 4
    /\ calls.fetch = 5

\* C4: k answers that say "running" followed by one that does not (the
\* deadline not reached on the way) make exactly k sleeps and k + 1 fetches,
\* and the poller returns the extraction of the last body with that body.
C4_ReturnsLastBody ==
    (Handled /\ upstream.status.status_code = 200 /\ ~LastSaysRunning /\ upstream.running)
        => /\ pc = "returned"
           /\ outcome = "TERMINAL"
           /\ calls.sleep = calls.fetch - 1
           /\ result = <<extract_agent_message_from_run(Json(upstream.status)),
                         Json(upstream.status)>>

\* C5: a non-200 answer to a status fetch ends the poll at that fetch in
\* TRANSPORT_ERROR: no message, an error carrying the answer's status code
\* and raw body, the body not inspected, the extractor not called, no
\* further fetch or sleep, however many running answers came before.
C5_TransportErrorIsFinal ==
    (upstream.status # None /\ upstream.status.status_code # 200)
        => /\ StoppedAtLastFetch
           /\ outcome = "TRANSPORT_ERROR"
           /\ result[1] = None
           /\ Get(result[2], "error") = Bool(TRUE)
           /\ Get(result[2], "status_code") = Num(upstream.status.status_code)
           /\ Get(result[2], "detail") = upstream.status.text
           /\ ~Has(result[2], "last_run")
           /\ calls.extract = 0

\* a transport error after two running answers
C5_Witness ==
    /\ pc = "returned"
    /\ outcome = "TRANSPORT_ERROR"
    /\ calls.sleep = 2
    /\ upstream.status.status_code = 500

---------------------------------------------------------------------------
(* Whole turns of the two front ends (Spec) *)

\* the first non-empty of thread_id and threadId in a run-creation answer
ReturnedThread(resp_json) ==
    IF Get(resp_json, "thread_id") \notin {None, Str("")}
    THEN Get(resp_json, "thread_id")
    ELSE Get(resp_json, "threadId")

\* the session's thread id, empty until one is adopted
Thread == session_state.thread_id

\* C6: in one interactive session the thread id starts empty, is adopted
\* from the first run-creation answer that returns a non-empty
\* thread_id/threadId, never changes afterwards whatever later answers
\* return, and every run creation after the adoption sends exactly it.
C6_ThreadAdoptedOnce ==
    /\ Thread = None
    /\ [][program = "ui" =>
            /\ (Thread # None => Thread' = Thread)
            /\ (Thread' # Thread =>
                  /\ pc = "launch"
                  /\ upstream'.launch.status_code = 200
                  /\ Thread' = ReturnedThread(Json(upstream'.launch))
                  /\ Thread' \notin {None, Str("")})
            /\ ((/\ Thread = None
                 /\ pc = "launch"
                 /\ upstream'.launch.status_code = 200
                 /\ ReturnedThread(Json(upstream'.launch)) \notin {None, Str("")})
                  => Thread' = ReturnedThread(Json(upstream'.launch)))
            /\ (pc' = "launch" =>
                  IF Thread' = None THEN ~Has(payload', "thread_id")
                  ELSE Get(payload', "thread_id") = Thread')
       ]_vars

\* a later run creation sent the adopted "t1", was answered with "t2", and
\* the session still holds "t1"
C6_Witness ==
    /\ program = "ui"
    /\ sends = 2
    /\ Len(session_state.history) = 2
    /\ Thread = Str("t1")
    /\ Get(payload, "thread_id") = Str("t1")
    /\ Get(orchestrate_resp, "threadId") = Str("t2")

\* the thread id the front end hands to the run launcher
SuppliedThread == IF program = "ui" THEN Thread ELSE request.thread_id

\* the message the front end hands to the run launcher
SuppliedMessage == IF program = "ui" THEN msg ELSE request.message

\* C7: the run-creation body holds thread_id exactly when the supplied
\* thread id is non-empty (None and "" leave it out, "t1" is sent as "t1"),
\* and always holds message {role: "user", content: message} and agent_id,
\* in the interactive launcher and in the relay.
C7_ThreadIdOnlyIfNonEmpty ==
    pc = "launch" =>
        /\ Has(payload, "thread_id") <=> SuppliedThread \notin {None, Str("")}
        /\ Has(payload, "thread_id") => Get(payload, "thread_id") = SuppliedThread
        /\ Get(payload, "message") =
             Dict(<< <<"role", Str("user")>>, <<"content", Str(SuppliedMessage)>> >>)
        /\ Get(payload, "agent_id") = Str("agent")

\* the relay was handed an empty thread id and left the field out
C7_Witness ==
    /\ program = "relay"
    /\ pc = "launch"
    /\ request.thread_id = Str("")
    /\ ~Has(payload, "thread_id")
    /\ Has(payload, "agent_id")

\* the turn is over: the callback returned, or the /chat call was answered
Ended == pc \in {"rerun", "responded"}

\* the error values x that carry the status code and the body text of answer r
CarriesError(x, r) ==
    /\ x.t = "obj"
    /\ Get(x, "status_code") = Num(r.status_code)
    /\ Get(x, "detail") = r.text

\* what the caller of the turn sees carries the code and the body of answer r
CallerSees(r) ==
    IF program = "ui" THEN CarriesError(session_state.last_error, r)
    ELSE \/ /\ response.kind = "error"
            /\ response.status_code = r.status_code
            /\ response.detail \in {r.text, Json(r)}
         \/ /\ response.kind = "ok"
            /\ CarriesError(response.run_details, r)

\* C8: a non-200 answer of the identity, run-creation or run-status endpoint
\* always reaches the caller of the turn as an error value carrying the
\* original status code and the original body text, in both front ends.
C8_UpstreamErrorsCarried ==
    \A ep \in {"token", "launch", "status"} :
        (Ended /\ upstream[ep] # None /\ upstream[ep].status_code # 200)
            => CallerSees(upstream[ep])

\* the turn ended in AuthError, LaunchError, PollTransportError or PollTimeout
TurnFailed ==
    \/ upstream.token # None /\ upstream.token.status_code # 200
    \/ upstream.launch # None /\ upstream.launch.status_code # 200
    \/ outcome \in {"TRANSPORT_ERROR", "TIMEOUT"}

\* C9: every turn that ends in AuthError, LaunchError, PollTransportError or
\* PollTimeout is surfaced as a failure: a non-empty last_error in the
\* interactive UI, an HTTP error response with the upstream status in the
\* relay, never a normal success.
C9_FailuresSurfaced ==
    (Ended /\ TurnFailed)
        => IF program = "ui" THEN session_state.last_error \notin {None, Str("")}
           ELSE response.kind = "error"

\* C10: when the identity endpoint answers with a non-success status, or
\* with success and no access_token, the turn makes no run-creation call,
\* and no absent token is ever used as a bearer token.
C10_NoTokenNoLaunch ==
    /\ ((/\ upstream.token # None
         /\ (upstream.token.status_code # 200
               \/ ~Has(Json(upstream.token), "access_token")))
          => calls.launch = 0)
    /\ (calls.launch > 0 => token # None)

---------------------------------------------------------------------------
(* The extractor, called on its own (ExtractSpec) *)

Extracted == program = "extractor" /\ pc = "returned"

IsAssistant(obj) == obj.t = "obj" /\ Has(obj, "role") /\ Get(obj, "role") = Str("assistant")

\* The place in keys of the first key obj holds, 0 when it holds none.
FirstPresent(obj, keys) ==
    LET present == { i \in 1..Len(keys) : Has(obj, keys[i]) }
    IN  IF present = {} THEN 0 ELSE CHOOSE i \in present : \A j \in present : i <= j

MessageFieldOrder == <<"content", "message", "text">>

\* C11: for an object whose role is assistant, the field the extractor
\* selects is the first of content, message, text that is PRESENT, whatever
\* it holds; a selected string is the answer, and a selected object or array
\* is answered by exactly what the recursion into it finds, nothing included.
C11_FirstPresentFieldSelected ==
    (Extracted /\ IsAssistant(run_json) /\ FirstPresent(run_json, MessageFieldOrder) > 0) =>
        LET selected == Get(run_json, MessageFieldOrder[FirstPresent(run_json, MessageFieldOrder)])
        IN  /\ selected.t = "str" => result[1] = selected
            /\ selected.t \in {"obj", "arr"} => result[1] = find_message(selected)

CandidateKeyOrder == <<"message", "messages", "content", "output", "text", "result">>

\* What a candidate key holding v answers: v when a string, else what the
\* recursion into v finds.
KeyAnswer(v) == IF v.t = "str" THEN v ELSE find_message(v)

\* The first non-empty result over items, in their order; none when every
\* item yields nothing.
FirstYield(items) ==
    LET yields == { i \in 1..Len(items) : Truthy(find_message(items[i])) }
    IN  IF yields = {} THEN None
        ELSE find_message(items[CHOOSE i \in yields : \A j \in yields : i <= j])

\* The answer of an object probed by candidate key.
ProbeAnswer(obj) ==
    LET hits == { i \in 1..Len(CandidateKeyOrder) :
                    /\ Has(obj, CandidateKeyOrder[i])
                    /\ \/ Get(obj, CandidateKeyOrder[i]).t = "str"
                       \/ Truthy(find_message(Get(obj, CandidateKeyOrder[i]))) }
    IN  IF hits = {} THEN FirstYield(Values(obj))
        ELSE KeyAnswer(Get(obj, CandidateKeyOrder[CHOOSE i \in hits : \A j \in hits : i <= j]))

OutputText == Dict(<< <<"output", Dict(<< <<"text", Str("hi")>> >>)>> >>)

\* C12: an object whose role is not assistant is answered by its first
\* candidate key, in the order message, messages, content, output, text,
\* result, that holds a string (returned as is, even empty) or a value whose
\* recursion finds a non-empty message; when no candidate key answers, by the
\* first value, in key order, whose recursion finds one.  An array is
\* answered by its first element that yields one.  {"output": {"text": "hi"}}
\* is answered "hi".
C12_CandidateKeysInOrder ==
    Extracted =>
        /\ (run_json.t = "obj" /\ ~IsAssistant(run_json)) => result[1] = ProbeAnswer(run_json)
        /\ run_json.t = "arr" => result[1] = FirstYield(run_json.v)
        /\ run_json = OutputText => result[1] = Str("hi")

\* A later candidate key answered because the earlier one, an object, held
\* no message.
C12_Witness ==
    /\ Extracted
    /\ run_json = Dict(<< <<"text", Str("m")>>, <<"content", Dict(<< <<"id", Num(1)>> >>)>> >>)
    /\ result[1] = Str("m")

CandidateKeySet == {"message", "messages", "content", "output", "text", "result"}

\* Some object inside v, v included, has the role assistant.
RECURSIVE HoldsAssistant(_)
HoldsAssistant(v) ==
    \/ IsAssistant(v)
    \/ v.t = "obj" /\ \E i \in 1..Len(v.v) : HoldsAssistant(v.v[i][2])
    \/ v.t = "arr" /\ \E i \in 1..Len(v.v) : HoldsAssistant(v.v[i])

\* Some object inside v, v included, has a candidate key.
RECURSIVE HoldsCandidateKey(_)
HoldsCandidateKey(v) ==
    \/ v.t = "obj" /\ \E i \in 1..Len(v.v) :
                          v.v[i][1] \in CandidateKeySet \/ HoldsCandidateKey(v.v[i][2])
    \/ v.t = "arr" /\ \E i \in 1..Len(v.v) : HoldsCandidateKey(v.v[i])

\* How deep v nests: 0 for a value that is no container.
RECURSIVE Depth(_)
Depth(v) ==
    LET inner == IF v.t = "obj" THEN { Depth(v.v[i][2]) : i \in 1..Len(v.v) }
                 ELSE IF v.t = "arr" THEN { Depth(v.v[i]) : i \in 1..Len(v.v) }
                 ELSE {}
    IN  IF v.t \notin {"obj", "arr"} THEN 0
        ELSE IF inner = {} THEN 1
        ELSE 1 + CHOOSE n \in inner : \A m \in inner : m <= n

\* C13: on a value in which no object has the role assistant and no object
\* has a candidate key, at any depth, the extractor returns no result.
C13_NothingToFind ==
    (Extracted /\ ~HoldsAssistant(run_json) /\ ~HoldsCandidateKey(run_json)) =>
        result[1] = None

\* Such a value, nested as deep as the inputs go and holding strings, was
\* answered.
C13_Witness ==
    /\ Extracted
    /\ ~HoldsAssistant(run_json)
    /\ ~HoldsCandidateKey(run_json)
    /\ Depth(run_json) = MaxDepth
    /\ run_json.t = "obj"
    /\ \E i \in 1..Len(run_json.v) :
           /\ run_json.v[i][2].t = "arr"
           /\ Str("hello") \in { run_json.v[i][2].v[j] : j \in 1..Len(run_json.v[i][2].v) }
    /\ result[1] = None

---------------------------------------------------------------------------
(* The status the pollers inspect (PollSpec) *)

StatusFieldOrder == <<"status", "state", "run_status">>

\* What the first status field a body holds says; nothing when it has none.
PresentStatus(rj) ==
    IF FirstPresent(rj, StatusFieldOrder) = 0 THEN None
    ELSE Get(rj, StatusFieldOrder[FirstPresent(rj, StatusFieldOrder)])

\* C16: the status a poller inspects in an object body is the value of the
\* first of status, state, run_status that is PRESENT; a body whose status is
\* present but empty, null, 0 or false is judged by that field, so the poll
\* ends there in TERMINAL, whatever a later state or run_status says.
C16_FirstPresentStatusJudged ==
    (Handled /\ upstream.status.status_code = 200 /\ Json(upstream.status).t = "obj") =>
        /\ LastStatus = PresentStatus(Json(upstream.status))
        /\ (Has(Json(upstream.status), "status") /\ ~Truthy(Get(Json(upstream.status), "status")))
               => (StoppedAtLastFetch /\ outcome = "TERMINAL")

\* C18: given the same maximum wait, interval and answers, the two pollers
\* do the same: at every answer handled, after the same fetches and sleeps,
\* the synchronous and the asynchronous loop body reach the same outcome and
\* return the same pair, or both sleep.
C18_PollersAgree ==
    Handled =>
        PollStep("sync", upstream.status, elapsed, max_wait_seconds, run_id)
            = PollStep("async", upstream.status, elapsed, max_wait_seconds, run_id)

---------------------------------------------------------------------------
(* The calls of one turn (Spec) *)

\* The endpoint answered, with success.
Succeeded(resp) == resp # None /\ resp.status_code = 200

\* Some endpoint answered this turn with an error.
CallFailed ==
    \/ upstream.token # None /\ ~Succeeded(upstream.token)
    \/ upstream.launch # None /\ ~Succeeded(upstream.launch)
    \/ upstream.status # None /\ ~Succeeded(upstream.status)

\* The calls started so far in the turn are in order, and the one not yet
\* answered is the last of them.
CallOrder ==
    /\ calls.token <= 1
    /\ calls.launch <= 1
    /\ calls.launch = 1 => (calls.token = 1 /\ Succeeded(upstream.token))
    /\ calls.fetch >= 1 => (calls.launch = 1 /\ Succeeded(upstream.launch))
    /\ calls.fetch = 0 => calls.sleep = 0
    /\ calls.fetch >= 1 => calls.sleep \in {calls.fetch - 1, calls.fetch}
    /\ (calls.fetch >= 1 /\ calls.sleep = calls.fetch) <=> pc = "sleep"
    /\ pc = "token" => (calls.token = 1 /\ calls.launch = 0 /\ upstream.token = None)
    /\ pc = "launch" => (calls.launch = 1 /\ calls.fetch = 0 /\ upstream.launch = None)
    /\ pc = "fetch" => calls.fetch >= 1
    /\ pc = "sleep" => Succeeded(upstream.status)

\* One step starts at most one call or sleep, and none in a turn in which a
\* call failed.
OneCallAtATime ==
    pc \notin {"idle", "responded"} =>
        /\ calls'.token + calls'.launch + calls'.fetch + calls'.sleep
             <= calls.token + calls.launch + calls.fetch + calls.sleep + 1
        /\ calls'.token >= calls.token /\ calls'.launch >= calls.launch
        /\ calls'.fetch >= calls.fetch /\ calls'.sleep >= calls.sleep
        /\ CallFailed => (calls'.token = calls.token /\ calls'.launch = calls.launch /\
                          calls'.fetch = calls.fetch /\ calls'.sleep = calls.sleep)

\* C15: in a turn at most one token exchange is made, before anything else;
\* at most one run creation, only after the token exchange succeeded; status
\* fetches only after the run creation succeeded, with exactly one sleep
\* between two consecutive fetches; a call starts only when the one before it
\* was answered, and none starts after a call failed.
C15_CallsInOrder == CallOrder /\ [][CallOrder' /\ OneCallAtATime]_vars

\* A third status fetch is in flight, two sleeps after the first.
C15_Witness ==
    /\ pc = "fetch"
    /\ calls = [token |-> 1, launch |-> 1, fetch |-> 3, sleep |-> 2, extract |-> 0]
    /\ upstream.status # None

---------------------------------------------------------------------------
(* What a turn leaves behind (Spec) *)

\* The run id the run-creation answer holds.
LaunchedRun ==
    IF Get(Json(upstream.launch), "run_id") \notin {None, Str("")}
    THEN Get(Json(upstream.launch), "run_id")
    ELSE Get(Json(upstream.launch), "runId")

\* The interaction the session recorded last.
LastInteraction == session_state.history[Len(session_state.history)]

PollFailed == outcome \in {"TIMEOUT", "TRANSPORT_ERROR"}

\* C17: when the run was launched and polling ended in TIMEOUT or
\* TRANSPORT_ERROR, the UI has recorded this send's interaction with the
\* launched run id and the session's thread id (adopted from the answer when
\* the session had none), and the relay's response holds the whole
\* run-creation answer beside run_details holding the error value.
C17_PartialResultsKept ==
    (Ended /\ PollFailed) =>
        IF program = "ui"
        THEN /\ session_state.history # <<>>
             /\ LastInteraction.timestamp = sends
             /\ LastInteraction.run_id = LaunchedRun
             /\ LastInteraction.thread_id = Thread
             /\ ReturnedThread(Json(upstream.launch)) \notin {None, Str("")} => Thread # None
        ELSE /\ response.kind = "ok"
             /\ response.orchestrate_response = Json(upstream.launch)
             /\ response.run_details = result[2]
             /\ Get(response.run_details, "error") = Bool(TRUE)

\* The relay answered a turn whose polling met a transport error.
C17_Witness ==
    /\ program = "relay"
    /\ pc = "responded"
    /\ outcome = "TRANSPORT_ERROR"
    /\ response.kind = "ok"
    /\ Get(response.orchestrate_response, "run_id") = Str("r1")
    /\ Get(response.run_details, "status_code") = Num(500)

\* The step grows the history by exactly one interaction and keeps the rest.
AppendsOne ==
    /\ Len(session_state'.history) = Len(session_state.history) + 1
    /\ SubSeq(session_state'.history, 1, Len(session_state.history)) = session_state.history

\* The step leaves the history and the thread id alone and sets last_error.
OnlyErrorSet ==
    /\ session_state'.history = session_state.history
    /\ session_state'.thread_id = session_state.thread_id
    /\ session_state'.last_error \notin {None, Str("")}

\* The step makes no network call and no sleep.
StartsNoCall == calls' = calls \/ calls' = NoCalls

\* The step ends a send: the callback returns and the script runs again.
SendEnds == pc # "rerun" /\ pc' = "rerun"

\* C19: in the interactive session every step keeps the history or appends
\* one interaction to it.  A send of an empty or blank message ends at once
\* with no network call; a send whose token exchange or run creation failed
\* ends there with no later call; all three leave history and thread_id
\* unchanged and set last_error.  A send appends exactly one interaction when
\* the token exchange and the run creation both succeeded, and only then.
C19_HistoryAppendOnly ==
    [][program = "ui" =>
         /\ session_state'.history = session_state.history \/ AppendsOne
         /\ session_state'.history # session_state.history => SendEnds
         /\ (pc = "idle" /\ pc' # "idle" /\ Strip(session_state'.message_input) = "") =>
                (SendEnds /\ calls' = NoCalls /\ OnlyErrorSet)
         /\ (pc = "idle" /\ pc' # "idle" /\ Strip(session_state'.message_input) # "") =>
                (pc' = "token" /\ session_state'.history = session_state.history)
         /\ (pc = "token" /\ ~Succeeded(upstream'.token)) =>
                (SendEnds /\ StartsNoCall /\ OnlyErrorSet)
         /\ (pc = "launch" /\ ~Succeeded(upstream'.launch)) =>
                (SendEnds /\ StartsNoCall /\ OnlyErrorSet)
         /\ SendEnds =>
                (AppendsOne <=> (Succeeded(upstream'.token) /\ Succeeded(upstream'.launch)))
         /\ (pc = "rerun" /\ CallFailed) => StartsNoCall
      ]_vars

\* The second send failed at the token exchange and left the first send's
\* interaction and the adopted thread as they were.
C19_Witness ==
    /\ program = "ui"
    /\ pc = "rerun"
    /\ sends = 2
    /\ upstream.token # None
    /\ ~Succeeded(upstream.token)
    /\ Len(session_state.history) = 1
    /\ session_state.history[1].timestamp = 1
    /\ Thread = Str("t1")
    /\ session_state.last_error = Str("Failed to obtain IAM token.")

\* C20: a turn whose run creation succeeded with no non-empty run_id/runId
\* makes no status fetch and no sleep and ends with no agent message: the UI
\* has appended this send's interaction, without run id, under the session's
\* thread id, which is set when the answer returned one; the relay answers
\* orchestrate_response with agent_message and run_details both null.
C20_NoRunIdNoPoll ==
    (Ended /\ Succeeded(upstream.token) /\ Succeeded(upstream.launch)
           /\ LaunchedRun \in {None, Str("")}) =>
        /\ calls.fetch = 0
        /\ calls.sleep = 0
        /\ IF program = "ui"
           THEN /\ session_state.history # <<>>
                /\ LastInteraction.timestamp = sends
                /\ LastInteraction.run_id \in {None, Str("")}
                /\ LastInteraction.agent_message = None
                /\ LastInteraction.thread_id = Thread
                /\ ReturnedThread(Json(upstream.launch)) \notin {None, Str("")} => Thread # None
           ELSE response = [kind |-> "ok", status_code |-> 200,
                            orchestrate_response |-> Json(upstream.launch),
                            agent_message |-> None, run_details |-> None]

\* The first send got a thread id but no run id back: the thread is adopted
\* and the interaction recorded.
C20_Witness ==
    /\ program = "ui"
    /\ pc = "rerun"
    /\ sends = 1
    /\ Succeeded(upstream.launch)
    /\ LaunchedRun = None
    /\ calls.fetch = 0
    /\ Len(session_state.history) = 1
    /\ LastInteraction.thread_id = Str("t2")

---------------------------------------------------------------------------
(* Requests served at once (ConcSpec) *)

\* The run id a run-creation answer holds.
RunIdIn(resp) ==
    IF Get(Json(resp), "run_id") \notin {None, Str("")}
    THEN Get(Json(resp), "run_id")
    ELSE Get(Json(resp), "runId")

\* What /chat answers to req when served alone and given the answers up,
\* the last of them after sleeping slept times.
AloneResponse(req, up, slept) ==
    IF ~Succeeded(up.token)
    THEN [kind |-> "error", status_code |-> up.token.status_code,
          detail |-> Str("Could not generate IAM token")]
    ELSE IF ~Succeeded(up.launch)
    THEN [kind |-> "error", status_code |-> up.launch.status_code,
          detail |-> IF up.launch.text = EmptyText
                     THEN Str("Unknown error from Orchestrate API")
                     ELSE Json(up.launch)]
    ELSE IF RunIdIn(up.launch) \in {None, Str("")}
    THEN [kind |-> "ok", status_code |-> 200, orchestrate_response |-> Json(up.launch),
          agent_message |-> None, run_details |-> None]
    ELSE LET alone == PollStep("async", up.status, Float(slept, 0, 0), RelayMaxWait,
                               RunIdIn(up.launch))
         IN  [kind |-> "ok", status_code |-> 200, orchestrate_response |-> Json(up.launch),
              agent_message |-> alone.result[1], run_details |-> alone.result[2]]

\* The calls of /chat being served: the running one and the suspended ones.
Turns == {Frame} \cup { suspended[i] : i \in 1..Len(suspended) }

\* C14: of the requests the relay serves at once, under every interleaving
\* of their awaits, each polls the run its own run creation returned, with
\* the token its own token exchange returned, its own elapsed time and its
\* own last body, and is answered what it would be answered alone given the
\* answers its own calls got.
C14_TurnsIsolated ==
    Concurrent =>
        \A f \in Turns :
            /\ f.pc \in {"fetch", "sleep"} =>
                   /\ f.token = Get(Json(f.upstream.token), "access_token")
                   /\ f.orchestrate_resp = Json(f.upstream.launch)
                   /\ f.run_id = RunIdIn(f.upstream.launch)
                   /\ f.elapsed = Float(IF f.pc = "sleep" THEN f.calls.sleep - 1
                                        ELSE f.calls.sleep, 0, 0)
                   /\ f.pc = "sleep" => f.run_json = Json(f.upstream.status)
            /\ f.pc = "responded" =>
                   f.response = AloneResponse(f.request, f.upstream, f.calls.sleep)

\* One request is answered the message of its run, found at its second
\* fetch, while another, of another thread, still polls its own run.
C14_Witness ==
    /\ Concurrent
    /\ pc = "responded"
    /\ response.kind = "ok"
    /\ response.agent_message = Str("hi")
    /\ calls.sleep = 1
    /\ \E i \in 1..Len(suspended) :
           /\ suspended[i].pc = "sleep"
           /\ suspended[i].request # request
           /\ suspended[i].calls.sleep = 1

===========================================================================
